---- MODULE Spec2Model ----
(***************************************************************************)
(* Distributed evaluation of an image-captioning model:                    *)
(*   image_captioning/engine/inference.py  (compute_on_dataset,            *)
(*     reduce_loss, _accumulate_predictions_from_multiple_gpus, inference) *)
(*   tools/test_net.py                     (test, the driver)              *)
(* One process per rank runs inference(); the processes meet only in the   *)
(* collectives dist.reduce, synchronize and all_gather.                    *)
(***************************************************************************)
EXTENDS Integers, Sequences, FiniteSets, TLC

(* ------------------------------ bounds --------------------------------- *)
\* largest world size of a run (ranks 0 .. worldSize-1)
MaxWorld == 2
\* largest number of batches a data loader yields
MaxBatches == 2

\* the image ids (cocoids) a batch can carry
ItemIds == {1, 2}

\* Python floats are kept in fixed point: the float x is the integer x * Scale.
\* Scale is divisible by every batch count times every world size in range,
\* so that the two divisions of the program are exact.
Scale == 144

(* --------------------------- Python values ----------------------------- *)
\* Every Python value carries its type, so that values of different types
\* compare unequal, as they do in Python.
PyNone == <<"NoneType">>
PyInt(n) == <<"int", n>>
PyFloat(x) == <<"float", x>>
PyStr(s) == <<"str", s>>
\* a list: its elements in order
PyList(items) == <<"list", items>>
\* a dict: its (key, value) items in insertion order
PyDict(items) == <<"dict", items>>
Payload(v) == v[2]

\* k in d
DictContains(d, k) == \E i \in 1..Len(Payload(d)) : Payload(d)[i][1] = k

\* a broken "d[k] = v" that never looks for the key
DictSetItemAlwaysInsert(d, k, v) == PyDict(Append(Payload(d), <<k, v>>))

\* d[k] = v : replaces the value of an existing key in place, else inserts last
DictSetItem(d, k, v) ==
    IF DictContains(d, k)
    THEN PyDict([i \in 1..Len(Payload(d)) |->
                    IF Payload(d)[i][1] = k THEN <<k, v>> ELSE Payload(d)[i]])
    ELSE PyDict(Append(Payload(d), <<k, v>>))

\* iter(d): the keys of d in insertion order
DictKeys(d) == [i \in 1..Len(Payload(d)) |-> Payload(d)[i][1]]

\* d[k], for k in d
DictGet(d, k) ==
    LET i == CHOOSE j \in 1..Len(Payload(d)) : Payload(d)[j][1] = k
    IN  Payload(d)[i][2]

\* d.update(iterable): each element of the iterable is itself iterated and must
\* yield exactly two objects, the key and the value.  An element that is a dict
\* yields its keys.
RECURSIVE DictUpdate(_, _, _)
DictUpdate(d, iterable, n) ==
    IF n > Len(Payload(iterable)) THEN d
    ELSE LET pair == DictKeys(Payload(iterable)[n])
         IN  DictUpdate(DictSetItem(d, pair[1], pair[2]), iterable, n + 1)

(* ----------------------------- collaborators --------------------------- *)
\* one batch of the data loader: the cocoids of its examples, and the loss
\* the criterion computes on it.  The loaders of the runs below yield batches
\* of one example; the loops of compute_on_dataset take batches of any size.
Batches == {[cocoids |-> <<i>>, loss |-> i] : i \in ItemIds}

RECURSIVE SeqsUpTo(_, _)
SeqsUpTo(S, n) ==
    IF n = 0 THEN {<<>>}
    ELSE LET shorter == SeqsUpTo(S, n - 1)
         IN  shorter \cup {Append(s, x) : s \in {t \in shorter : Len(t) = n - 1}, x \in S}

\* the data loaders a process can be given
DataLoaders == SeqsUpTo(Batches, MaxBatches)

\* criterion(outputs, captions, cap_lens).item(): the loss of a batch
criterion(data) == data.loss * Scale

\* decode_sequence(vocab, seqs)[k] for batch i on rank p: a string; two
\* decodes give two different strings
decode_sequence(p, i, k) == <<"str", p, i, k>>

\* coco_eval(predictions, dataset_name): a metric table computed from the
\* predictions
coco_eval(preds) ==
    PyDict(<< <<PyStr("CIDEr"), PyFloat(Len(Payload(preds)) * Scale)>> >>)

(* ------------------------ compute_on_dataset --------------------------- *)
\* a broken inner loop that appends every entry, seen before or not
RECURSIVE ForSentsNoDedup(_, _, _, _, _)
ForSentsNoDedup(acc, p, i, cocoids, k) ==
    IF k > Len(cocoids) THEN acc
    ELSE LET entry == PyDict(<< <<PyStr("image_id"), PyInt(cocoids[k])>>,
                                <<PyStr("caption"), decode_sequence(p, i, k)>> >>)
         IN  ForSentsNoDedup([acc EXCEPT !.predictions = PyList(Append(Payload(@), entry))],
                             p, i, cocoids, k + 1)

\* lines 44-48: for k, sent in enumerate(sents)
RECURSIVE ForSents(_, _, _, _, _)
ForSents(acc, p, i, cocoids, k) ==
    IF k > Len(cocoids) THEN acc
    ELSE LET id == PyInt(cocoids[k])
             entry == PyDict(<< <<PyStr("image_id"), id>>,
                                <<PyStr("caption"), decode_sequence(p, i, k)>> >>)
             next == IF ~DictContains(acc.done_ids, id)
                     THEN [acc EXCEPT
                             !.done_ids = DictSetItem(@, id, PyInt(0)),
                             !.predictions = PyList(Append(Payload(@), entry))]
                     ELSE acc
         IN  ForSents(next, p, i, cocoids, k + 1)

\* a broken outer loop that weighs the loss of a batch by its number of examples
RECURSIVE ForDataWeighted(_, _, _, _)
ForDataWeighted(acc, p, data_loader, i) ==
    IF i > Len(data_loader) THEN acc
    ELSE LET data == data_loader[i]
             counted == [acc EXCEPT
                           !.val_loss_count = @ + Len(data.cocoids),
                           !.val_loss_sum = @ + criterion(data) * Len(data.cocoids)]
         IN  ForDataWeighted(ForSents(counted, p, i, data.cocoids, 1),
                             p, data_loader, i + 1)

\* lines 29-48: for i, data in enumerate(data_loader)
RECURSIVE ForData(_, _, _, _)
ForData(acc, p, data_loader, i) ==
    IF i > Len(data_loader) THEN acc
    ELSE LET data == data_loader[i]
             counted == [acc EXCEPT !.val_loss_count = @ + 1,
                                    !.val_loss_sum = @ + criterion(data)]
         IN  ForData(ForSents(counted, p, i, data.cocoids, 1), p, data_loader, i + 1)

\* a broken return that guards the division and reports a loss of zero
ReturnGuarded(acc) ==
    [raised |-> "none", predictions |-> acc.predictions,
     loss |-> IF acc.val_loss_count = 0 THEN PyFloat(0)
              ELSE PyFloat(acc.val_loss_sum \div acc.val_loss_count)]

\* line 49: return predictions, val_loss_sum / val_loss_count
Return(acc) ==
    IF acc.val_loss_count = 0
    THEN [raised |-> "ZeroDivisionError", predictions |-> PyNone, loss |-> PyNone]
    ELSE [raised |-> "none", predictions |-> acc.predictions,
          loss |-> PyFloat(acc.val_loss_sum \div acc.val_loss_count)]

compute_on_dataset(p, data_loader) ==
    Return(ForData([val_loss_sum |-> 0, val_loss_count |-> 0,
                    predictions |-> PyList(<<>>), done_ids |-> PyDict(<<>>)],
                   p, data_loader, 1))

(* ------------------------------- state --------------------------------- *)
VARIABLES
    worldSize,            \* get_world_size()
    shard,                \* shard[p]: the batches rank p's data loader yields
    pc,                   \* pc[p]: how far rank p's inference() has come
    predictions_per_gpu,  \* the list compute_on_dataset returned (line 92)
    loss,                 \* the loss compute_on_dataset returned (line 92)
    loss_reduced,         \* line 95
    predictions,          \* what line 97 binds predictions to
    result,               \* what inference() returned
    raised,               \* the exception that ended rank p, or "none"
    group,                \* the process group: what each collective holds
    calls,                \* calls[p]: the primitives rank p has called, in order
    scored,               \* the ranks that called coco_eval, in call order
    driver,               \* driver[p]: how far test() has come on rank p
    artifacts,            \* the prediction files written: (rank, content)
    reported              \* the ranks that logged the metric table

vars == <<worldSize, shard, pc, predictions_per_gpu, loss, loss_reduced,
          predictions, result, raised, group, calls, scored, driver,
          artifacts, reported>>

Ranks == 0..(worldSize - 1)
NotReturned == <<"running">>

\* is_main_process()
is_main_process(p) == p = 0

\* test() up to its call of inference(), with each rank's loader among loaders
InitWith(loaders) ==
    /\ worldSize \in 1..MaxWorld
    /\ shard \in [Ranks -> loaders]
    /\ pc = [p \in Ranks |-> "INIT"]
    /\ predictions_per_gpu = [p \in Ranks |-> PyNone]
    /\ loss = [p \in Ranks |-> PyNone]
    /\ loss_reduced = [p \in Ranks |-> PyNone]
    /\ predictions = [p \in Ranks |-> PyNone]
    /\ result = [p \in Ranks |-> NotReturned]
    /\ raised = [p \in Ranks |-> "none"]
    /\ group = [reduce |-> [p \in Ranks |-> PyNone],
                barrier |-> {},
                gather |-> [p \in Ranks |-> PyNone]]
    /\ calls = [p \in Ranks |-> <<>>]
    /\ scored = <<>>
    /\ driver = [p \in Ranks |-> "inference"]
    /\ artifacts = {}
    /\ reported = {}

Init == InitWith(DataLoaders)

(* --------------------------- the collectives --------------------------- *)
\* every rank of the group has made its call of the collective
AllReduceCalled == \A q \in Ranks : group.reduce[q] # PyNone
AllBarrierCalled == group.barrier = Ranks
AllGatherCalled == \A q \in Ranks : group.gather[q] # PyNone

\* the sum of what the first n ranks handed to dist.reduce
RECURSIVE SumReduce(_)
SumReduce(n) == IF n = 0 THEN 0 ELSE Payload(group.reduce[n - 1]) + SumReduce(n - 1)

\* all_gather(data) on the root: every rank's data, in rank order
all_gather == PyList([i \in 1..worldSize |-> group.gather[i - 1]])

(* ------------------------------ inference ------------------------------ *)
\* an exception leaves inference() and then test(): nothing catches it
Raise(p, exc) ==
    /\ raised' = [raised EXCEPT ![p] = exc]
    /\ pc' = [pc EXCEPT ![p] = "FAILED"]
    /\ driver' = [driver EXCEPT ![p] = "crashed"]

\* a broken line 92 that catches the collaborator's exception and goes on
\* with an empty result
ComputeSwallowing(p) ==
    /\ pc[p] = "INIT"
    /\ \E fails \in BOOLEAN :
         LET r == compute_on_dataset(p, shard[p])
         IN  IF fails /\ Len(shard[p]) > 0
             THEN /\ raised' = [raised EXCEPT ![p] = "CollaboratorFailure"]
                  /\ pc' = [pc EXCEPT ![p] = "LOCAL_EVAL"]
                  /\ predictions_per_gpu' = [predictions_per_gpu EXCEPT ![p] = PyList(<<>>)]
                  /\ loss' = [loss EXCEPT ![p] = PyFloat(0)]
                  /\ UNCHANGED driver
             ELSE IF r.raised # "none"
             THEN /\ Raise(p, r.raised)
                  /\ UNCHANGED <<predictions_per_gpu, loss>>
             ELSE /\ predictions_per_gpu' = [predictions_per_gpu EXCEPT ![p] = r.predictions]
                  /\ loss' = [loss EXCEPT ![p] = r.loss]
                  /\ pc' = [pc EXCEPT ![p] = "LOCAL_EVAL"]
                  /\ UNCHANGED <<raised, driver>>
    /\ UNCHANGED <<worldSize, shard, loss_reduced, predictions, result, group,
                   calls, scored, artifacts, reported>>

\* lines 86-94: predictions, loss = compute_on_dataset(...).  The model, the
\* criterion or the vocabulary may raise while a batch is processed.
Compute(p) ==
    /\ pc[p] = "INIT"
    /\ \E fails \in BOOLEAN :
         LET r == compute_on_dataset(p, shard[p])
         IN  IF fails /\ Len(shard[p]) > 0
             THEN /\ Raise(p, "CollaboratorFailure")
                  /\ UNCHANGED <<predictions_per_gpu, loss>>
             ELSE IF r.raised # "none"
             THEN /\ Raise(p, r.raised)
                  /\ UNCHANGED <<predictions_per_gpu, loss>>
             ELSE /\ predictions_per_gpu' = [predictions_per_gpu EXCEPT ![p] = r.predictions]
                  /\ loss' = [loss EXCEPT ![p] = r.loss]
                  /\ pc' = [pc EXCEPT ![p] = "LOCAL_EVAL"]
                  /\ UNCHANGED <<raised, driver>>
    /\ UNCHANGED <<worldSize, shard, loss_reduced, predictions, result, group,
                   calls, scored, artifacts, reported>>

\* a broken reduce_loss in which only the root enters dist.reduce
ReduceLossCallRootOnly(p) ==
    /\ pc[p] = "LOCAL_EVAL"
    /\ calls' = [calls EXCEPT ![p] = Append(@, "reduce")]
    /\ IF worldSize < 2 \/ ~is_main_process(p)
       THEN /\ loss_reduced' = [loss_reduced EXCEPT ![p] = loss[p]]
            /\ pc' = [pc EXCEPT ![p] = "LOSS_REDUCED"]
            /\ UNCHANGED group
       ELSE /\ group' = [group EXCEPT !.reduce[p] = loss[p]]
            /\ pc' = [pc EXCEPT ![p] = "in_reduce"]
            /\ UNCHANGED loss_reduced
    /\ UNCHANGED <<worldSize, shard, predictions_per_gpu, loss, predictions,
                   result, raised, scored, driver, artifacts, reported>>

\* lines 95, 58-62: reduce_loss(loss) up to its call of dist.reduce
ReduceLossCall(p) ==
    /\ pc[p] = "LOCAL_EVAL"
    /\ calls' = [calls EXCEPT ![p] = Append(@, "reduce")]
    /\ IF worldSize < 2
       THEN /\ loss_reduced' = [loss_reduced EXCEPT ![p] = loss[p]]
            /\ pc' = [pc EXCEPT ![p] = "LOSS_REDUCED"]
            /\ UNCHANGED group
       ELSE /\ group' = [group EXCEPT !.reduce[p] = loss[p]]
            /\ pc' = [pc EXCEPT ![p] = "in_reduce"]
            /\ UNCHANGED loss_reduced
    /\ UNCHANGED <<worldSize, shard, predictions_per_gpu, loss, predictions,
                   result, raised, scored, driver, artifacts, reported>>

\* a broken reduce that hands the root the sum and does not wait: the root
\* averages what has arrived when its call returns
ReduceLossReturnArrived(p) ==
    /\ pc[p] = "in_reduce"
    /\ LET RECURSIVE Arrived(_)
           Arrived(n) ==
               IF n = 0 THEN 0
               ELSE (IF group.reduce[n - 1] = PyNone THEN 0
                     ELSE Payload(group.reduce[n - 1])) + Arrived(n - 1)
       IN  loss_reduced' = [loss_reduced EXCEPT ![p] =
                              IF p = 0 THEN PyFloat(Arrived(worldSize) \div worldSize)
                              ELSE loss[p]]
    /\ pc' = [pc EXCEPT ![p] = "LOSS_REDUCED"]
    /\ UNCHANGED <<worldSize, shard, predictions_per_gpu, loss, predictions,
                   result, raised, group, calls, scored, driver, artifacts, reported>>

\* lines 62-65: dist.reduce returns once every rank has entered it.  Its
\* argument is the float of line 49: a float cannot be changed in place and the
\* value dist.reduce returns is dropped, so loss is after the call what it was
\* before it; the root divides it by the world size.
ReduceLossReturn(p) ==
    /\ pc[p] = "in_reduce"
    /\ AllReduceCalled
    /\ loss_reduced' = [loss_reduced EXCEPT ![p] =
                          IF p = 0 THEN PyFloat(Payload(loss[p]) \div worldSize)
                          ELSE loss[p]]
    /\ pc' = [pc EXCEPT ![p] = "LOSS_REDUCED"]
    /\ UNCHANGED <<worldSize, shard, predictions_per_gpu, loss, predictions,
                   result, raised, group, calls, scored, driver, artifacts, reported>>

\* a broken line 96 that leaves the barrier out
SynchronizeSkipped(p) ==
    /\ pc[p] = "LOSS_REDUCED"
    /\ calls' = [calls EXCEPT ![p] = Append(@, "barrier")]
    /\ pc' = [pc EXCEPT ![p] = "BARRIERED"]
    /\ UNCHANGED <<worldSize, shard, predictions_per_gpu, loss, loss_reduced,
                   predictions, result, raised, group, scored, driver, artifacts,
                   reported>>

\* line 96: synchronize() is called; with one process it returns at once
SynchronizeCall(p) ==
    /\ pc[p] = "LOSS_REDUCED"
    /\ calls' = [calls EXCEPT ![p] = Append(@, "barrier")]
    /\ IF worldSize = 1
       THEN /\ pc' = [pc EXCEPT ![p] = "BARRIERED"]
            /\ UNCHANGED group
       ELSE /\ group' = [group EXCEPT !.barrier = @ \cup {p}]
            /\ pc' = [pc EXCEPT ![p] = "in_barrier"]
    /\ UNCHANGED <<worldSize, shard, predictions_per_gpu, loss, loss_reduced,
                   predictions, result, raised, scored, driver, artifacts, reported>>

\* synchronize() returns: the barrier opens once every rank has entered it
SynchronizeReturn(p) ==
    /\ pc[p] = "in_barrier"
    /\ AllBarrierCalled
    /\ pc' = [pc EXCEPT ![p] = "BARRIERED"]
    /\ UNCHANGED <<worldSize, shard, predictions_per_gpu, loss, loss_reduced,
                   predictions, result, raised, group, calls, scored, driver,
                   artifacts, reported>>

\* a broken line 70 moved above line 69: a rank other than the root returns
\* before it enters all_gather
AccumulateCallNonRootSkips(p) ==
    /\ pc[p] = "BARRIERED"
    /\ IF ~is_main_process(p)
       THEN /\ pc' = [pc EXCEPT ![p] = "GATHERED"]
            /\ UNCHANGED <<calls, group>>
       ELSE /\ calls' = [calls EXCEPT ![p] = Append(@, "gather")]
            /\ group' = [group EXCEPT !.gather[p] = predictions_per_gpu[p]]
            /\ pc' = [pc EXCEPT ![p] = "in_gather"]
    /\ UNCHANGED <<worldSize, shard, predictions_per_gpu, loss, loss_reduced,
                   predictions, result, raised, scored, driver, artifacts, reported>>

\* lines 97, 69: all_gather(predictions_per_gpu) is called
AccumulateCall(p) ==
    /\ pc[p] = "BARRIERED"
    /\ calls' = [calls EXCEPT ![p] = Append(@, "gather")]
    /\ group' = [group EXCEPT !.gather[p] = predictions_per_gpu[p]]
    /\ pc' = [pc EXCEPT ![p] = "in_gather"]
    /\ UNCHANGED <<worldSize, shard, predictions_per_gpu, loss, loss_reduced,
                   predictions, result, raised, scored, driver, artifacts, reported>>

\* lines 72-75: predictions = {}; for p in all_predictions: predictions.update(p)
MergePredictions(all_predictions) ==
    LET RECURSIVE Merge(_, _)
        Merge(d, n) ==
            IF n > Len(Payload(all_predictions)) THEN d
            ELSE Merge(DictUpdate(d, Payload(all_predictions)[n], 1), n + 1)
    IN  Merge(PyDict(<<>>), 1)

\* a broken gather that moves the data: a rank's list is emptied when its
\* all_gather returns
AccumulateReturnMoving(p) ==
    /\ pc[p] = "in_gather"
    /\ AllGatherCalled
    /\ predictions' = [predictions EXCEPT ![p] =
                         IF ~is_main_process(p) THEN PyNone
                         ELSE MergePredictions(all_gather)]
    /\ predictions_per_gpu' = [predictions_per_gpu EXCEPT ![p] = PyList(<<>>)]
    /\ pc' = [pc EXCEPT ![p] = "GATHERED"]
    /\ UNCHANGED <<worldSize, shard, loss, loss_reduced,
                   result, raised, group, calls, scored, driver, artifacts, reported>>

\* lines 69-75: all_gather returns once every rank has entered it; a rank
\* other than the root returns None, the root merges what was gathered
AccumulateReturn(p) ==
    /\ pc[p] = "in_gather"
    /\ AllGatherCalled
    /\ predictions' = [predictions EXCEPT ![p] =
                         IF ~is_main_process(p) THEN PyNone
                         ELSE MergePredictions(all_gather)]
    /\ pc' = [pc EXCEPT ![p] = "GATHERED"]
    /\ UNCHANGED <<worldSize, shard, predictions_per_gpu, loss, loss_reduced,
                   result, raised, group, calls, scored, driver, artifacts, reported>>

\* a broken line 98 on which every rank scores and returns its values
InferenceReturnEveryRank(p) ==
    /\ pc[p] = "GATHERED"
    /\ scored' = Append(scored, p)
    /\ result' = [result EXCEPT ![p] = <<loss_reduced[p], predictions[p], PyDict(<<>>)>>]
    /\ pc' = [pc EXCEPT ![p] = IF is_main_process(p) THEN "SCORED" ELSE "DONE"]
    /\ UNCHANGED <<worldSize, shard, predictions_per_gpu, loss, loss_reduced,
                   predictions, raised, group, calls, driver, artifacts, reported>>

\* lines 98-102: a rank other than the root returns (None, None, None); the
\* root calls coco_eval, which may raise, and returns its three values
InferenceReturn(p) ==
    /\ pc[p] = "GATHERED"
    /\ IF ~is_main_process(p)
       THEN /\ result' = [result EXCEPT ![p] = <<PyNone, PyNone, PyNone>>]
            /\ pc' = [pc EXCEPT ![p] = "DONE"]
            /\ UNCHANGED <<scored, raised, driver>>
       ELSE /\ scored' = Append(scored, p)
            /\ \E fails \in BOOLEAN :
                 IF fails
                 THEN /\ Raise(p, "CollaboratorFailure")
                      /\ UNCHANGED result
                 ELSE /\ result' = [result EXCEPT ![p] =
                            <<loss_reduced[p], predictions[p], coco_eval(predictions[p])>>]
                      /\ pc' = [pc EXCEPT ![p] = "SCORED"]
                      /\ UNCHANGED <<raised, driver>>
    /\ UNCHANGED <<worldSize, shard, predictions_per_gpu, loss, loss_reduced,
                   predictions, group, calls, artifacts, reported>>

(* ------------------------------- test() -------------------------------- *)
\* test_net.py lines 42-65: inference() has returned.  json.dump writes the
\* predictions; scores.items() raises on None; with --verbose each pred of
\* predictions is indexed by 'image_id', which raises on a str.
TestFinish(p) ==
    /\ driver[p] = "inference"
    /\ pc[p] \in {"SCORED", "DONE"}
    /\ artifacts' = artifacts \cup {<<p, result[p][2]>>}
    /\ IF result[p][3] = PyNone
       THEN /\ raised' = [raised EXCEPT ![p] = "AttributeError"]
            /\ driver' = [driver EXCEPT ![p] = "crashed"]
            /\ UNCHANGED reported
       ELSE /\ reported' = reported \cup {p}
            /\ \E verbose \in BOOLEAN :
                 IF verbose /\ Len(DictKeys(result[p][2])) > 0
                 THEN /\ raised' = [raised EXCEPT ![p] = "TypeError"]
                      /\ driver' = [driver EXCEPT ![p] = "crashed"]
                 ELSE /\ driver' = [driver EXCEPT ![p] = "returned"]
                      /\ UNCHANGED raised
    /\ UNCHANGED <<worldSize, shard, pc, predictions_per_gpu, loss, loss_reduced,
                   predictions, result, group, calls, scored>>

(* ---------------------------- specification ---------------------------- *)
Next ==
    \/ \E p \in Ranks : Compute(p)
    \/ \E p \in Ranks : ReduceLossCall(p)
    \/ \E p \in Ranks : ReduceLossReturn(p)
    \/ \E p \in Ranks : SynchronizeCall(p)
    \/ \E p \in Ranks : SynchronizeReturn(p)
    \/ \E p \in Ranks : AccumulateCall(p)
    \/ \E p \in Ranks : AccumulateReturn(p)
    \/ \E p \in Ranks : InferenceReturn(p)
    \/ \E p \in Ranks : TestFinish(p)

Spec == Init /\ [][Next]_vars

\* The course of a run depends on how many batches each loader yields, not on
\* the image ids they carry: the runs under fair scheduling take their loaders
\* from those of a single image id.
FairLoaders == SeqsUpTo({b \in Batches : b.cocoids = <<1>>}, MaxBatches)

FairInit == InitWith(FairLoaders)

\* every process is scheduled: a step that stays possible is taken
FairSpec == FairInit /\ [][Next]_vars /\ WF_vars(Next)

TypeOK ==
    /\ worldSize \in 1..MaxWorld
    /\ \A p \in Ranks : pc[p] \in {"INIT", "LOCAL_EVAL", "in_reduce", "LOSS_REDUCED",
                                   "in_barrier", "BARRIERED", "in_gather", "GATHERED",
                                   "SCORED", "DONE", "FAILED"}

(* ------------------------- what a run has done ------------------------- *)
\* rank p has called the primitive c
Called(p, c) == \E i \in 1..Len(calls[p]) : calls[p][i] = c

\* the primitive has returned on rank p
ReduceReturned(p) == pc[p] = "LOSS_REDUCED" \/ Called(p, "barrier")
BarrierReturned(p) == pc[p] = "BARRIERED" \/ Called(p, "gather")
GatherReturned(p) ==
    \/ pc[p] \in {"GATHERED", "SCORED", "DONE"}
    \/ pc[p] = "FAILED" /\ Called(p, "gather")

\* the root has merged what was gathered (line 97 has returned on rank 0)
RootMerged == predictions[0] # PyNone
merged == Payload(predictions[0])

\* the image ids of the batches of rank p's shard
ShardIds(p) ==
    UNION {{shard[p][i].cocoids[k] : k \in 1..Len(shard[p][i].cocoids)} :
              i \in 1..Len(shard[p])}

\* rank p's local prediction list holds an entry for image id
LocalHas(p, id) ==
    /\ predictions_per_gpu[p] # PyNone
    /\ \E i \in 1..Len(Payload(predictions_per_gpu[p])) :
          DictGet(Payload(predictions_per_gpu[p])[i], PyStr("image_id")) = PyInt(id)

\* the caption of that entry
LocalCaption(p, id) ==
    LET l == Payload(predictions_per_gpu[p])
        i == CHOOSE j \in 1..Len(l) : DictGet(l[j], PyStr("image_id")) = PyInt(id)
    IN  DictGet(l[i], PyStr("caption"))

\* the caption the merged mapping holds under image id: the value itself, or
\* the caption of the entry the value is
MergedCaption(id) ==
    LET v == DictGet(predictions[0], PyInt(id))
    IN  IF v[1] = "dict" THEN DictGet(v, PyStr("caption")) ELSE v

C2_LowestRankWins ==
    (RootMerged /\ worldSize >= 2) =>
        \A id \in ItemIds : \A p \in Ranks :
            (LocalHas(p, id) /\ \A q \in Ranks : q < p => ~LocalHas(q, id))
                => /\ DictContains(predictions[0], PyInt(id))
                   /\ MergedCaption(id) = LocalCaption(p, id)

(* -------------------------------- C3 ----------------------------------- *)
\* C3: once the root has merged, the keys of the merged mapping are exactly
\* the image ids of the batches of all shards, each once.
C3_KeysAreAllItems ==
    RootMerged =>
        /\ {merged[i][1] : i \in 1..Len(merged)}
              = {PyInt(id) : id \in UNION {ShardIds(p) : p \in Ranks}}
        /\ \A i, j \in 1..Len(merged) : merged[i][1] = merged[j][1] => i = j

(* -------------------------------- C4 ----------------------------------- *)
\* C4 as stated: when a rank calls the barrier the reduce has returned on
\* every rank, and when a rank calls the gather the barrier has returned on
\* every rank.
C4_ReturnedEverywhereBeforeNextCall ==
    /\ \A p, q \in Ranks : Called(p, "barrier") => ReduceReturned(q)
    /\ \A p, q \in Ranks : Called(p, "gather") => BarrierReturned(q)

\* C4 (amended): the collectives are ordered by their calls.  When a rank
\* calls the barrier every rank has called the reduce; when the barrier has
\* returned on a rank the reduce has returned on every rank; when a rank calls
\* the gather every rank has called the barrier.  So no rank gathers while a
\* rank has not finished its local evaluation.
C4_CalledEverywhereBeforeNextCall ==
    /\ \A p, q \in Ranks : Called(p, "barrier") => Called(q, "reduce")
    /\ \A p, q \in Ranks : BarrierReturned(p) => ReduceReturned(q)
    /\ \A p, q \in Ranks : Called(p, "gather") => Called(q, "barrier")
    /\ \A p, q \in Ranks :
          Called(p, "gather") =>
              /\ pc[q] \notin {"INIT", "LOCAL_EVAL"}
              /\ predictions_per_gpu[q] # PyNone /\ loss[q] # PyNone

\* rank 0 has called the gather while rank 1 is still inside the barrier
C4_Witness ==
    /\ worldSize >= 2
    /\ Called(0, "gather")
    /\ pc[1] = "in_barrier"

(* -------------------------------- C5 ----------------------------------- *)
\* C5: the barrier has returned on a rank only if every rank has called it;
\* with one process it never blocks and enters no collective.
C5_BarrierWaitsForAll ==
    /\ \A p, q \in Ranks : BarrierReturned(p) => Called(q, "barrier")
    /\ worldSize = 1 => pc[0] # "in_barrier" /\ group.barrier = {}

\* of two ranks, one is past the barrier that the other is still inside
C5_Witness ==
    /\ worldSize = 2
    /\ \E p, q \in Ranks : BarrierReturned(p) /\ pc[q] = "in_barrier"

(* -------------------------------- C6 ----------------------------------- *)
\* C6: a rank other than 0 never reaches SCORED and, once inference has
\* returned on it, the result is (None, None, None); the result of rank 0
\* holds no None.
C6_NonRootReturnsNone ==
    \A p \in Ranks :
        /\ p # 0 => pc[p] # "SCORED"
        /\ (p # 0 /\ pc[p] = "DONE") => result[p] = <<PyNone, PyNone, PyNone>>
        /\ (p # 0 /\ pc[p] # "DONE") => result[p] = NotReturned
        /\ (p = 0 /\ result[p] # NotReturned) =>
              /\ pc[p] = "SCORED"
              /\ \A i \in 1..3 : result[p][i] # PyNone

\* rank 1 computed a non-empty local result and returned
C6_Witness ==
    /\ worldSize >= 2
    /\ pc[1] = "DONE"
    /\ Len(Payload(predictions_per_gpu[1])) > 0
    /\ loss[1] # PyNone

(* -------------------------------- C7 ----------------------------------- *)
\* C7: the scorer is called at most once, by rank 0 and after its gather has
\* returned; only rank 0 writes the prediction file or reports the metrics.
C7_OnlyRootScoresAndWrites ==
    /\ Len(scored) <= 1
    /\ \A i \in 1..Len(scored) : scored[i] = 0 /\ GatherReturned(0)
    /\ \A a \in artifacts : a[1] = 0
    /\ reported \subseteq {0}

(* -------------------------------- C8 ----------------------------------- *)
\* every rank has ended in success: the root scored, the others done
AllSucceeded ==
    /\ pc[0] = "SCORED"
    /\ \A i \in 1..3 : result[0][i] # PyNone
    /\ \A p \in Ranks : p # 0 => pc[p] = "DONE"

\* a collaborator (model, criterion, vocabulary, scorer) has raised
CollaboratorFailed == \E p \in Ranks : raised[p] = "CollaboratorFailure"

\* C8: when every shard yields a batch, a fairly scheduled run in which no
\* collaborator raises ends with rank 0 SCORED, holding a populated result,
\* and every other rank DONE.
C8_EveryRankTerminates ==
    (\A p \in Ranks : Len(shard[p]) > 0) ~> (AllSucceeded \/ CollaboratorFailed)

\* a run of two ranks has ended in success
C8_Witness ==
    /\ worldSize >= 2
    /\ \A p \in Ranks : Len(shard[p]) > 0
    /\ AllSucceeded
    /\ ~CollaboratorFailed

(* -------------------------------- C9 ----------------------------------- *)
\* a collaborator raised inside rank p's compute_on_dataset
EvaluateFailed(p) == raised[p] = "CollaboratorFailure" /\ ~Called(p, "gather")

\* C9: when a collaborator raises in the evaluation of one rank of several,
\* the rank ends FAILED with the exception at its caller and is not run again;
\* no other rank ever gets past the barrier: each stays blocked in a collective
\* before it, none reaches SCORED or DONE and no result is returned.
C9_FailureStallsTheGroup ==
    /\ [](\A p \in Ranks : (EvaluateFailed(p) /\ worldSize >= 2) =>
            /\ pc[p] = "FAILED" /\ driver[p] = "crashed"
            /\ calls[p] = <<>>
            /\ \A q \in Ranks :
                  /\ pc[q] \in {"INIT", "LOCAL_EVAL", "in_reduce", "FAILED"}
                  /\ ~BarrierReturned(q)
                  /\ result[q] = NotReturned)
    /\ [][\A p \in Ranks : pc[p] = "FAILED" => pc'[p] = "FAILED"]_vars

\* rank 0 failed in its evaluation and rank 1 is blocked in the reduce
C9_Witness ==
    /\ worldSize >= 2
    /\ EvaluateFailed(0)
    /\ pc[1] = "in_reduce"

(* -------------------------------- C10 ---------------------------------- *)
\* C10: a rank whose shard yields no batch ends its evaluation FAILED with the
\* ZeroDivisionError at its caller; it has no loss and no prediction list and
\* has called no collective.
C10_EmptyShardFails ==
    \A p \in Ranks :
        (Len(shard[p]) = 0 /\ pc[p] # "INIT") =>
            /\ pc[p] = "FAILED" /\ raised[p] = "ZeroDivisionError"
            /\ driver[p] = "crashed"
            /\ loss[p] = PyNone /\ predictions_per_gpu[p] = PyNone
            /\ result[p] = NotReturned
            /\ calls[p] = <<>>
            /\ group.reduce[p] = PyNone /\ p \notin group.barrier
            /\ group.gather[p] = PyNone

\* a rank with an empty shard has run its evaluation
C10_Witness ==
    \E p \in Ranks : Len(shard[p]) = 0 /\ raised[p] = "ZeroDivisionError"

(* ------------------ compute_on_dataset on its own ---------------------- *)
\* largest number of examples in a batch
MaxBatchSize == 2

\* the losses the criterion can compute on a batch
Losses == {2, 4, 6}

\* batches of one to MaxBatchSize examples, with any loss
EvalBatches ==
    {[cocoids |-> c, loss |-> l] :
        c \in SeqsUpTo(ItemIds, MaxBatchSize) \ {<<>>}, l \in Losses}

EvalLoaders == SeqsUpTo(EvalBatches, MaxBatches)

\* a single process, given any such loader, runs its evaluation
EvalInit == worldSize = 1 /\ InitWith(EvalLoaders)

EvalNext == \E p \in Ranks : Compute(p)

EvalSpec == EvalInit /\ [][EvalNext]_vars

\* the examples a loader yields, in order: image id, batch, place in the batch
RECURSIVE Observations(_, _)
Observations(data_loader, i) ==
    IF i > Len(data_loader) THEN <<>>
    ELSE [k \in 1..Len(data_loader[i].cocoids) |->
             [id |-> data_loader[i].cocoids[k], i |-> i, k |-> k]]
         \o Observations(data_loader, i + 1)

\* where image id is seen first among the observations obs
FirstOccurrence(obs, id) ==
    CHOOSE n \in 1..Len(obs) :
        obs[n].id = id /\ \A m \in 1..(n - 1) : obs[m].id # id

(* -------------------------------- C11 ---------------------------------- *)
\* C11: the prediction list compute_on_dataset returns holds one entry for each
\* image id its batches carry and nothing else; the entries stand in the order
\* in which their ids were first seen, and each caption is the one decoded at
\* the first occurrence of its id.
C11_FirstOccurrenceKept ==
    \A p \in Ranks :
        predictions_per_gpu[p] # PyNone =>
            LET obs == Observations(shard[p], 1)
                l == Payload(predictions_per_gpu[p])
                ids == {obs[n].id : n \in 1..Len(obs)}
                IdAt(n) == Payload(DictGet(l[n], PyStr("image_id")))
            IN  /\ Len(l) = Cardinality(ids)
                /\ \A n \in 1..Len(l) :
                      /\ IdAt(n) \in ids
                      /\ LET f == obs[FirstOccurrence(obs, IdAt(n))]
                         IN  l[n] = PyDict(<< <<PyStr("image_id"), PyInt(f.id)>>,
                                              <<PyStr("caption"),
                                                decode_sequence(p, f.i, f.k)>> >>)
                /\ \A m, n \in 1..Len(l) :
                      m < n => FirstOccurrence(obs, IdAt(m)) < FirstOccurrence(obs, IdAt(n))

\* the evaluation has run on two batches that carry one id twice and then
\* another id
C11_Witness ==
    /\ pc[0] = "LOCAL_EVAL"
    /\ Len(shard[0]) = 2
    /\ LET obs == Observations(shard[0], 1)
       IN  /\ Len(obs) = 3
           /\ obs[1].id = obs[2].id /\ obs[3].id # obs[1].id /\ obs[2].i = 2

(* -------------------------------- C13 ---------------------------------- *)
\* the sum of the losses of the batches of a loader
RECURSIVE SumLosses(_, _)
SumLosses(data_loader, i) ==
    IF i > Len(data_loader) THEN 0
    ELSE data_loader[i].loss + SumLosses(data_loader, i + 1)

\* C13: the loss compute_on_dataset returns for a loader of at least one batch
\* is the sum of the losses of its batches divided by their number, whatever
\* the number of examples in each batch.
C13_MeanOverBatches ==
    \A p \in Ranks :
        (Len(shard[p]) > 0 /\ pc[p] = "LOCAL_EVAL") =>
            /\ loss[p] # PyNone
            /\ Payload(loss[p]) * Len(shard[p]) = SumLosses(shard[p], 1) * Scale

\* the evaluation has run on two batches of different sizes and losses
C13_Witness ==
    /\ pc[0] = "LOCAL_EVAL"
    /\ Len(shard[0]) = 2
    /\ Len(shard[0][1].cocoids) # Len(shard[0][2].cocoids)
    /\ shard[0][1].loss # shard[0][2].loss

(* -------------------------------- C12 ---------------------------------- *)
\* C12: the loss reduce_loss returns on the root is the sum of the losses all
\* ranks handed to it divided by the world size; with one process it is the
\* loss handed in, and no collective is entered.
C12_RootHoldsMeanOfLocalLosses ==
    loss_reduced[0] # PyNone =>
        /\ worldSize >= 2 =>
              Payload(loss_reduced[0]) * worldSize = SumReduce(worldSize)
        /\ worldSize = 1 => loss_reduced[0] = loss[0] /\ group.reduce[0] = PyNone

(* -------------------------------- C14 ---------------------------------- *)
\* the orchestrator state of rank p: a rank inside a collective is still in
\* the state it entered the collective from
State(p) ==
    CASE pc[p] = "in_reduce" -> "LOCAL_EVAL"
      [] pc[p] = "in_barrier" -> "LOSS_REDUCED"
      [] pc[p] = "in_gather" -> "BARRIERED"
      [] OTHER -> pc[p]

Terminal == {"SCORED", "DONE", "FAILED"}

\* the edges of inference() on rank p, lines 92-102
Edge(p, s, t) ==
    \/ s = "INIT" /\ t = "LOCAL_EVAL"
    \/ s = "LOCAL_EVAL" /\ t = "LOSS_REDUCED"
    \/ s = "LOSS_REDUCED" /\ t = "BARRIERED"
    \/ s = "BARRIERED" /\ t = "GATHERED"
    \/ s = "GATHERED" /\ t = (IF is_main_process(p) THEN "SCORED" ELSE "DONE")
    \/ s \notin Terminal /\ t = "FAILED"

\* C14: the state of a rank changes only along INIT -> LOCAL_EVAL ->
\* LOSS_REDUCED -> BARRIERED -> GATHERED -> SCORED (rank 0) or DONE (other
\* ranks), or from a state that is not terminal to FAILED; a terminal state is
\* never left, SCORED is held by rank 0 only and DONE by other ranks only, and
\* an exception raised in a state that is not terminal leaves the rank FAILED.
C14_StateMachine ==
    /\ [](\A p \in Ranks : /\ State(p) = "SCORED" => p = 0
                           /\ State(p) = "DONE" => p # 0
                           /\ State(p) = "FAILED" => raised[p] # "none")
    /\ [][\A p \in Ranks :
            LET s == State(p)
                t == IF pc'[p] = "in_reduce" THEN "LOCAL_EVAL"
                     ELSE IF pc'[p] = "in_barrier" THEN "LOSS_REDUCED"
                     ELSE IF pc'[p] = "in_gather" THEN "BARRIERED"
                     ELSE pc'[p]
            IN  /\ s # t => Edge(p, s, t)
                /\ (s \notin Terminal /\ raised'[p] # raised[p]) => t = "FAILED"]_vars

\* the root has failed in the last state before its terminal one while
\* another rank has ended DONE
C14_Witness ==
    /\ worldSize >= 2
    /\ pc[0] = "FAILED"
    /\ Called(0, "gather")
    /\ pc[1] = "DONE"
    /\ driver[1] = "crashed"

(* -------------------------------- C15 ---------------------------------- *)
\* the collectives of inference() in the order of lines 95, 96, 97
Collectives == <<"reduce", "barrier", "gather">>

\* the number of collectives a rank in state pc has called
CallsMade(at) ==
    CASE at \in {"INIT", "LOCAL_EVAL"} -> {0}
      [] at \in {"in_reduce", "LOSS_REDUCED"} -> {1}
      [] at \in {"in_barrier", "BARRIERED"} -> {2}
      [] at \in {"in_gather", "GATHERED", "SCORED", "DONE"} -> {3}
      [] OTHER -> {0, 3}

\* C15: with two or more ranks, the calls a rank has made are the first calls
\* of reduce, barrier, gather, each made once and each entering the collective
\* of the group; a rank is past a collective only if it has called it, and a
\* rank whose inference has returned, root or not, has called all three and
\* returned only after every rank had entered the gather.
C15_SameCollectivesOnEveryRank ==
    worldSize >= 2 =>
        \A p \in Ranks :
            /\ Len(calls[p]) \in CallsMade(pc[p])
            /\ \A i \in 1..Len(calls[p]) : calls[p][i] = Collectives[i]
            /\ Called(p, "reduce") <=> group.reduce[p] # PyNone
            /\ Called(p, "barrier") <=> p \in group.barrier
            /\ Called(p, "gather") <=> group.gather[p] # PyNone
            /\ result[p] # NotReturned =>
                  /\ calls[p] = Collectives
                  /\ AllGatherCalled
                  /\ p # 0 => result[p] = <<PyNone, PyNone, PyNone>>

\* a rank other than the root has returned while the root is still in the gather
C15_Witness ==
    /\ worldSize >= 2
    /\ pc[0] = "in_gather"
    /\ result[1] = <<PyNone, PyNone, PyNone>>

(* -------------------------------- C16 ---------------------------------- *)
\* C16: the list and the loss a rank has computed never change afterwards,
\* in particular not when the gather returns and the root merges; what the
\* gather hands the root is every rank's list as it is, in rank order, the
\* root's own included, and a rank other than the root gets None.
C16_GatherLeavesLocalResults ==
    /\ [](\A p \in Ranks :
            /\ group.gather[p] # PyNone => group.gather[p] = predictions_per_gpu[p]
            /\ AllGatherCalled =>
                  /\ Len(Payload(all_gather)) = worldSize
                  /\ Payload(all_gather)[p + 1] = predictions_per_gpu[p]
            /\ p # 0 => predictions[p] = PyNone)
    /\ [][\A p \in Ranks :
            /\ predictions_per_gpu[p] # PyNone =>
                  predictions_per_gpu'[p] = predictions_per_gpu[p]
            /\ loss[p] # PyNone => loss'[p] = loss[p]
            /\ Called(p, "gather") => loss_reduced'[p] = loss_reduced[p]]_vars

\* every rank is past the gather, the root has merged, and each rank holds a
\* list that is not empty
C16_Witness ==
    /\ worldSize >= 2
    /\ \A p \in Ranks : pc[p] = "GATHERED" /\ Len(Payload(predictions_per_gpu[p])) > 0
    /\ RootMerged

(* -------------------------------- C17 ---------------------------------- *)
\* C17: a run of one rank never waits in a collective and, once it has
\* returned, the loss it returns is the local loss and the predictions it
\* returns hold exactly the entries of the local list: the keys are the image
\* ids of the list, each once, each with the caption the list holds for it.
C17_SingleProcessIsLocalEvaluation ==
    worldSize = 1 =>
        /\ pc[0] \notin {"in_reduce", "in_barrier"}
        /\ group.reduce[0] = PyNone /\ group.barrier = {}
        /\ pc[0] = "in_gather" => AllGatherCalled
        /\ pc[0] = "SCORED" =>
              /\ result[0][1] = loss[0]
              /\ LET d == result[0][2]
                 IN  /\ {DictKeys(d)[i] : i \in 1..Len(DictKeys(d))}
                           = {PyInt(id) : id \in {j \in ItemIds : LocalHas(0, j)}}
                     /\ \A i, j \in 1..Len(DictKeys(d)) :
                           DictKeys(d)[i] = DictKeys(d)[j] => i = j
                     /\ \A id \in ItemIds : LocalHas(0, id) =>
                           LET v == DictGet(d, PyInt(id))
                           IN  (IF v[1] = "dict" THEN DictGet(v, PyStr("caption")) ELSE v)
                                  = LocalCaption(0, id)

(* -------------------------------- C18 ---------------------------------- *)
\* what rank p's evaluation yields for its shard
LocalResult(p) == compute_on_dataset(p, shard[p])

\* the loss and the predictions of the root when the ranks run one after the
\* other in rank order: lines 92, 95 and 97 applied to the shards
SequentialLoss ==
    IF worldSize < 2 THEN LocalResult(0).loss
    ELSE PyFloat(Payload(LocalResult(0).loss) \div worldSize)
SequentialPredictions ==
    MergePredictions(PyList([i \in 1..worldSize |-> LocalResult(i - 1).predictions]))

\* C18: the shards and the world size never change, and whenever the root has
\* returned, in whatever order the ranks took their steps, the loss and the
\* predictions it returns are those the shards alone determine; so two runs
\* on the same shards return the same.
C18_RootResultIsScheduleFree ==
    /\ [][shard' = shard /\ worldSize' = worldSize]_vars
    /\ [](pc[0] = "SCORED" =>
            /\ result[0][1] = SequentialLoss
            /\ result[0][2] = SequentialPredictions)

\* the root has returned on shards that differ while another rank, the one
\* that entered the collectives last, is still in the gather
C18_Witness ==
    /\ worldSize >= 2
    /\ pc[0] = "SCORED"
    /\ shard[0] # shard[1]
    /\ pc[1] = "in_gather"
====
